---- MODULE Spec2Model ----
(***************************************************************************)
(* cowboys::GraphNode: a scalar computation graph with memoized,           *)
(* dependency-aware evaluation.  Nodes are numbered from 1; every node is  *)
(* held by the caller for the whole run (its shared_ptr count never drops  *)
(* to 0).  outputs, a vector of raw pointers, is read only by the loop of  *)
(* RecursiveInvalidateCache, whose effect depends on neither the order nor *)
(* the multiplicity of its elements: it is modelled as a set.              *)
(* Doubles are modelled by integers: every value that occurs is a small    *)
(* integer, on which the arithmetic of the modelled operators is exact.    *)
(* Sin, Cos, Exp and Sqrt of FUNCTION_SET leave the integers and are not   *)
(* modelled.                                                               *)
(***************************************************************************)
EXTENDS Integers, Sequences, FiniteSets, TLC

\* ---------------------------------------------------------------- bounds
NumNodes == 3
MaxInputs == 2
MaxValue == 1
MaxCalls == 3

Values == 0..MaxValue

VARIABLES
    inputs,               \* node -> sequence of nodes (shared_ptr, ordered)
    outputs,              \* node -> set of nodes (raw back-pointers)
    function_pointer,     \* node -> name of a NodeFunction, or "nullptr"
    default_output,       \* node -> value
    cached_output,        \* node -> value
    cached_output_valid,  \* node -> BOOLEAN
    crashed,              \* TRUE once a call recursed without bound
    calls,                \* calls made so far by the caller of Spec
    last,                 \* the call that produced this state, with its result
    lifetime              \* node -> "held" | "input" | "destroyed" | "dereferenced"

graph == <<inputs, outputs, function_pointer, default_output>>
cache == <<cached_output, cached_output_valid>>
vars == <<inputs, outputs, function_pointer, default_output, cached_output,
          cached_output_valid, crashed, calls, last, lifetime>>

\* The nodes constructed. The caller holds a shared_ptr to each for the whole
\* run, except in SpecLifetime, where it may release some.
Nodes == DOMAIN inputs

\* Vectors of nodes drawn from S, of length lo..hi (arguments of AddInputs / SetInputs).
NodeSeqs(S, lo, hi) == UNION {[1..k -> S] : k \in lo..hi}

\* ------------------------------------------------------- operator library
\* Pure reductions over the vector returned by GetInputValues.
RECURSIVE SeqSum(_)
SeqSum(s) == IF s = <<>> THEN 0 ELSE Head(s) + SeqSum(Tail(s))

RECURSIVE SeqProduct(_)
SeqProduct(s) == IF s = <<>> THEN 1 ELSE Head(s) * SeqProduct(Tail(s))

SeqMax(s) == CHOOSE v \in {s[i] : i \in DOMAIN s} : \A i \in DOMAIN s : s[i] <= v

SeqMin(s) == CHOOSE v \in {s[i] : i \in DOMAIN s} : \A i \in DOMAIN s : v <= s[i]

\* std::ranges::is_sorted(vals, comp): no element compares comp-before its
\* predecessor.
\* Mutant of IsSortedLess: strictly ascending, equal neighbours rejected.
IsSortedLessStrict(s) == \A i \in 1..(Len(s) - 1) : s[i] < s[i + 1]

IsSortedLess(s) == \A i \in 1..(Len(s) - 1) : ~(s[i + 1] < s[i])

IsSortedGreater(s) == \A i \in 1..(Len(s) - 1) : ~(s[i + 1] > s[i])

Bool2Double(b) == IF b THEN 1 ELSE 0

\* Functions that read all inputs through GetInputValues(), as a function of
\* the values read and the node's default.
AllInputFunctions == {"Sum", "And", "AnyEq", "Product", "LessThan", "GreaterThan",
                      "Max", "Min", "NegSum", "Square", "PosClamp", "NegClamp"}

\* Mutant of Reduce: the loop of AnyEq starts at position 0, so the first input
\* is compared with itself.
ReduceAnyEqFromFirst(f, vals, dflt) ==
    CASE f = "Sum" -> SeqSum(vals)
      [] f = "And" -> IF \E i \in DOMAIN vals : vals[i] = 0 THEN 0 ELSE 1
      [] f = "AnyEq" -> IF Len(vals) = 0 THEN dflt
                        ELSE IF \E i \in 1..Len(vals) : vals[1] = vals[i] THEN 1 ELSE 0
      [] f = "Product" -> SeqProduct(vals)
      [] f = "LessThan" -> Bool2Double(IsSortedLess(vals))
      [] f = "GreaterThan" -> Bool2Double(IsSortedGreater(vals))
      [] f = "Max" -> IF vals = <<>> THEN dflt ELSE SeqMax(vals)
      [] f = "Min" -> IF vals = <<>> THEN dflt ELSE SeqMin(vals)
      [] f = "NegSum" -> 0 - SeqSum(vals)
      [] f = "Square" -> SeqSum([i \in DOMAIN vals |-> vals[i] * vals[i]])
      [] f = "PosClamp" -> SeqSum([i \in DOMAIN vals |-> IF vals[i] > 0 THEN vals[i] ELSE 0])
      [] f = "NegClamp" -> SeqSum([i \in DOMAIN vals |-> IF vals[i] < 0 THEN vals[i] ELSE 0])

Reduce(f, vals, dflt) ==
    CASE f = "Sum" -> SeqSum(vals)
      [] f = "And" -> IF \E i \in DOMAIN vals : vals[i] = 0 THEN 0 ELSE 1
      [] f = "AnyEq" -> IF Len(vals) = 0 THEN dflt
                        ELSE IF \E i \in 2..Len(vals) : vals[1] = vals[i] THEN 1 ELSE 0
      [] f = "Product" -> SeqProduct(vals)
      [] f = "LessThan" -> Bool2Double(IsSortedLess(vals))
      [] f = "GreaterThan" -> Bool2Double(IsSortedGreater(vals))
      [] f = "Max" -> IF vals = <<>> THEN dflt ELSE SeqMax(vals)
      [] f = "Min" -> IF vals = <<>> THEN dflt ELSE SeqMin(vals)
      [] f = "NegSum" -> 0 - SeqSum(vals)
      [] f = "Square" -> SeqSum([i \in DOMAIN vals |-> vals[i] * vals[i]])
      [] f = "PosClamp" -> SeqSum([i \in DOMAIN vals |-> IF vals[i] > 0 THEN vals[i] ELSE 0])
      [] f = "NegClamp" -> SeqSum([i \in DOMAIN vals |-> IF vals[i] < 0 THEN vals[i] ELSE 0])

\* Functions that read inputs by position through GetInputValues<N>(indices).
IndexedFunctions == {"Not", "Gate"}

Indices(f) == IF f = "Not" THEN <<1>> ELSE <<1, 2>>

\* Mutant of Select: Gate takes the condition from position 0 and the value
\* from position 1.
SelectSwapped(f, vals) ==
    CASE f = "Not" -> IF vals[1] = 0 THEN 1 ELSE 0
      [] f = "Gate" -> IF vals[1] # 0 THEN vals[2] ELSE 0

Select(f, vals) ==
    CASE f = "Not" -> IF vals[1] = 0 THEN 1 ELSE 0
      [] f = "Gate" -> IF vals[2] # 0 THEN vals[1] ELSE 0

FUNCTION_SET == {"nullptr"} \cup AllInputFunctions \cup IndexedFunctions

\* ------------------------------------------------------------- evaluation
\* An evaluation or invalidation in progress: the cache fields as written so
\* far, the value returned by the innermost completed GetOutput, the vector
\* being built by GetInputValues, and whether the recursion re-entered a node
\* whose call is still on the stack (it then recurses without bound).
EvalState(out, valid) ==
    [out |-> out, valid |-> valid, ret |-> 0, vals |-> <<>>, ovf |-> FALSE]

Current == EvalState(cached_output, cached_output_valid)

RECURSIVE GetOutputRec(_, _, _)
RECURSIVE GetInputValuesRec(_, _, _, _)

\* Mutant of CacheHit: a cache hit returns default_output, not cached_output.
CacheHitDefault(n, st) == [st EXCEPT !.ret = default_output[n]]

\* if (cached_output_valid) return cached_output;
CacheHit(n, st) == [st EXCEPT !.ret = st.out[n]]

\* Mutant of StoreCache: the result is cached but the flag is never set.
StoreCacheNoFlag(n, r) == [r EXCEPT !.out[n] = r.ret, !.vals = <<>>]

\* cached_output = result; cached_output_valid = true; return result;
StoreCache(n, r) == [r EXCEPT !.out[n] = r.ret, !.valid[n] = TRUE, !.vals = <<>>]

\* std::transform over the positions idx of node n's inputs, in order, each
\* element calling GetOutput on that input.
GetInputValuesRec(n, idx, st, stack) ==
    IF idx = <<>> \/ st.ovf THEN st
    ELSE LET r == GetOutputRec(inputs[n][Head(idx)], st, stack)
             t == GetInputValuesRec(n, Tail(idx), [r EXCEPT !.vals = <<>>], stack)
         IN  IF r.ovf THEN r ELSE [t EXCEPT !.vals = <<r.ret>> \o t.vals]

\* GetInputValues(): every input, in order.
AllPositions(n) == [i \in 1..Len(inputs[n]) |-> i]

\* GetInputValues<N>(indices) returns std::nullopt: max_index >= inputs.size().
NullOpt(n, idx) == \E i \in DOMAIN idx : idx[i] > Len(inputs[n])

\* Mutant of Invoke: a function short of inputs returns 0., not the default.
InvokeZeroFallback(f, n, st, stack) ==
    IF f \in AllInputFunctions
    THEN LET v == GetInputValuesRec(n, AllPositions(n), st, stack)
         IN  IF v.ovf THEN v ELSE [v EXCEPT !.ret = Reduce(f, v.vals, default_output[n])]
    ELSE IF NullOpt(n, Indices(f))
         THEN [st EXCEPT !.ret = 0]
         ELSE LET v == GetInputValuesRec(n, Indices(f), st, stack)
              IN  IF v.ovf THEN v ELSE [v EXCEPT !.ret = Select(f, v.vals)]

\* result = function_pointer(*this)
Invoke(f, n, st, stack) ==
    IF f \in AllInputFunctions
    THEN LET v == GetInputValuesRec(n, AllPositions(n), st, stack)
         IN  IF v.ovf THEN v ELSE [v EXCEPT !.ret = Reduce(f, v.vals, default_output[n])]
    ELSE IF NullOpt(n, Indices(f))
         THEN [st EXCEPT !.ret = default_output[n]]
         ELSE LET v == GetInputValuesRec(n, Indices(f), st, stack)
              IN  IF v.ovf THEN v ELSE [v EXCEPT !.ret = Select(f, v.vals)]

\* Mutant of GetOutputRec: a node without function reads all its inputs, as Sum
\* does, before it returns its default.
GetOutputRecReadsInputs(n, st, stack) ==
    IF n \in stack THEN [st EXCEPT !.ovf = TRUE]
    ELSE IF st.valid[n] THEN CacheHit(n, st)
    ELSE LET r == IF function_pointer[n] = "nullptr"
                  THEN [GetInputValuesRec(n, AllPositions(n), st, stack \cup {n})
                            EXCEPT !.ret = default_output[n]]
                  ELSE Invoke(function_pointer[n], n, st, stack \cup {n})
         IN  IF r.ovf THEN r ELSE StoreCache(n, r)

GetOutputRec(n, st, stack) ==
    IF n \in stack THEN [st EXCEPT !.ovf = TRUE]
    ELSE IF st.valid[n] THEN CacheHit(n, st)
    ELSE LET r == IF function_pointer[n] = "nullptr"
                  THEN [st EXCEPT !.ret = default_output[n]]
                  ELSE Invoke(function_pointer[n], n, st, stack \cup {n})
         IN  IF r.ovf THEN r ELSE StoreCache(n, r)

\* ----------------------------------------------------------- invalidation
RECURSIVE RecursiveInvalidateCache(_, _, _, _)
RECURSIVE InvalidateOutputs(_, _, _, _)

\* for (auto &output : outputs) output->RecursiveInvalidateCache();
InvalidateOutputs(todo, outs, st, stack) ==
    IF todo = {} \/ st.ovf THEN st
    ELSE LET m == CHOOSE m \in todo : TRUE
         IN  InvalidateOutputs(todo \ {m}, outs,
                               RecursiveInvalidateCache(m, outs, st, stack), stack)

\* Mutant of RecursiveInvalidateCache: only this node's flag is cleared.
ShallowInvalidateCache(n, outs, st, stack) == [st EXCEPT !.valid[n] = FALSE]

RecursiveInvalidateCache(n, outs, st, stack) ==
    IF n \in stack THEN [st EXCEPT !.ovf = TRUE]
    ELSE InvalidateOutputs(outs[n], outs, [st EXCEPT !.valid[n] = FALSE], stack \cup {n})

\* this->RecursiveInvalidateCache() over the back-pointers outs.
Invalidated(n, outs) == RecursiveInvalidateCache(n, outs, Current, {})

\* void AddOutput(GraphNode *node) { outputs.push_back(node); } called on `node`
\* with `this` = x.
AddOutput(outs, node, x) == [outs EXCEPT ![node] = @ \cup {x}]

\* A call as the caller sees it: the method, the node it was called on, its
\* argument, the value it returned (GetOutput), and whether GetOutput found the
\* node's cache valid on entry.
Call(op, node, arg, ret, hit) ==
    [op |-> op, node |-> node, arg |-> arg, ret |-> ret, hit |-> hit]

\* ---------------------------------------------------------------- actions
GetOutput(x) ==
    LET r == GetOutputRec(x, Current, {})
    IN  /\ cached_output' = r.out
        /\ cached_output_valid' = r.valid
        /\ crashed' = r.ovf
        /\ last' = Call("GetOutput", x, <<>>, IF r.ovf THEN 0 ELSE r.ret,
                        cached_output_valid[x])
        /\ UNCHANGED graph

SetFunctionPointer(x, f) ==
    LET r == Invalidated(x, outputs)
    IN  /\ function_pointer' = [function_pointer EXCEPT ![x] = f]
        /\ cached_output_valid' = r.valid
        /\ crashed' = r.ovf
        /\ last' = Call("SetFunctionPointer", x, f, 0, FALSE)
        /\ UNCHANGED <<inputs, outputs, default_output, cached_output>>

\* Mutant of AddInput: the input is stored but node->AddOutput(this) is not
\* called.
AddInputUnregistered(x, node) ==
    LET r == Invalidated(x, outputs)
    IN  /\ inputs' = [inputs EXCEPT ![x] = Append(@, node)]
        /\ cached_output_valid' = r.valid
        /\ crashed' = r.ovf
        /\ last' = Call("AddInput", x, <<node>>, 0, FALSE)
        /\ UNCHANGED <<outputs, function_pointer, default_output, cached_output>>

AddInput(x, node) ==
    LET outs == AddOutput(outputs, node, x)
        r == Invalidated(x, outs)
    IN  /\ inputs' = [inputs EXCEPT ![x] = Append(@, node)]
        /\ outputs' = outs
        /\ cached_output_valid' = r.valid
        /\ crashed' = r.ovf
        /\ last' = Call("AddInput", x, <<node>>, 0, FALSE)
        /\ UNCHANGED <<function_pointer, default_output, cached_output>>

AddInputs(x, nodes) ==
    LET r == Invalidated(x, outputs)
    IN  /\ inputs' = [inputs EXCEPT ![x] = @ \o nodes]
        /\ cached_output_valid' = r.valid
        /\ crashed' = r.ovf
        /\ last' = Call("AddInputs", x, nodes, 0, FALSE)
        /\ UNCHANGED <<outputs, function_pointer, default_output, cached_output>>

SetInputs(x, nodes) ==
    LET r == Invalidated(x, outputs)
    IN  /\ inputs' = [inputs EXCEPT ![x] = nodes]
        /\ cached_output_valid' = r.valid
        /\ crashed' = r.ovf
        /\ last' = Call("SetInputs", x, nodes, 0, FALSE)
        /\ UNCHANGED <<outputs, function_pointer, default_output, cached_output>>

\* The std::optional returned by GetInputValues<N>(indices).
Optional(has, vals) == [has |-> has, vals |-> vals]

\* Mutant of GetInputValues: the range check is made per index inside the
\* transform, after the inputs in range before it were evaluated.
GetInputValuesEager(x, idx) ==
    LET inrange == SelectSeq(idx, LAMBDA i : i <= Len(inputs[x]))
        r == GetInputValuesRec(x, inrange, Current, {})
    IN  /\ cached_output' = r.out
        /\ cached_output_valid' = r.valid
        /\ crashed' = r.ovf
        /\ last' = Call("GetInputValues", x, idx,
                        IF r.ovf \/ NullOpt(x, idx) THEN Optional(FALSE, <<>>)
                        ELSE Optional(TRUE, r.vals), FALSE)
        /\ UNCHANGED graph

\* GetInputValues<N>(indices) called by the caller on node x, with the
\* positions idx counted from 1 (indices[i] + 1).
GetInputValues(x, idx) ==
    IF NullOpt(x, idx)
    THEN /\ last' = Call("GetInputValues", x, idx, Optional(FALSE, <<>>), FALSE)
         /\ UNCHANGED <<graph, cache, crashed>>
    ELSE LET r == GetInputValuesRec(x, idx, Current, {})
         IN  /\ cached_output' = r.out
             /\ cached_output_valid' = r.valid
             /\ crashed' = r.ovf
             /\ last' = Call("GetInputValues", x, idx,
                             IF r.ovf THEN Optional(FALSE, <<>>)
                             ELSE Optional(TRUE, r.vals), FALSE)
             /\ UNCHANGED graph

\* Mutant of SetDefaultOutput: no comparison with the current default.
SetDefaultOutputAlways(x, value) ==
    LET r == Invalidated(x, outputs)
    IN  /\ last' = Call("SetDefaultOutput", x, value, 0, FALSE)
        /\ default_output' = [default_output EXCEPT ![x] = value]
        /\ cached_output_valid' = r.valid
        /\ crashed' = r.ovf
        /\ UNCHANGED <<inputs, outputs, function_pointer, cached_output>>

SetDefaultOutput(x, value) ==
    LET r == Invalidated(x, outputs)
    IN  /\ last' = Call("SetDefaultOutput", x, value, 0, FALSE)
        /\ IF default_output[x] # value
           THEN /\ default_output' = [default_output EXCEPT ![x] = value]
                /\ cached_output_valid' = r.valid
                /\ crashed' = r.ovf
           ELSE UNCHANGED <<default_output, cached_output_valid, crashed>>
        /\ UNCHANGED <<inputs, outputs, function_pointer, cached_output>>

\* ----------------------------------------------------------- construction
\* N nodes built by GraphNode(double) (fp[n] = "nullptr", default dflt[n]) or
\* GraphNode(NodeFunction) (function fp[n], default 0); the other members keep
\* their initialisers.
Constructed(N, fp, dflt) ==
    /\ inputs = [n \in 1..N |-> <<>>]
    /\ outputs = [n \in 1..N |-> {}]
    /\ function_pointer = fp
    /\ default_output = dflt
    /\ cached_output = [n \in 1..N |-> 0]
    /\ cached_output_valid = [n \in 1..N |-> FALSE]
    /\ crashed = FALSE
    /\ calls = 0
    /\ last = Call("new", 0, <<>>, 0, FALSE)
    /\ lifetime = [n \in 1..N |-> "held"]

\* ------------------------------------------------------------------ Spec
\* Any caller: NumNodes nodes, every call of the interface on every node, with
\* every argument, cycles included, up to MaxCalls calls.
FunctionOrder == <<"Sum", "Gate">>

Functions == {"nullptr"} \cup {FunctionOrder[i] : i \in DOMAIN FunctionOrder}

\* The actions treat all node names alike, so constructions are enumerated up
\* to renaming: constants first, by value, then functions in FunctionOrder.
KindRank(f, d) ==
    IF f = "nullptr" THEN d
    ELSE MaxValue + (CHOOSE i \in DOMAIN FunctionOrder : FunctionOrder[i] = f)

Init ==
    \E fp \in [1..NumNodes -> Functions], dflt \in [1..NumNodes -> Values] :
        /\ \A n \in 1..NumNodes : fp[n] = "nullptr" \/ dflt[n] = 0
        /\ \A n \in 1..(NumNodes - 1) :
               KindRank(fp[n], dflt[n]) <= KindRank(fp[n + 1], dflt[n + 1])
        /\ Constructed(NumNodes, fp, dflt)

\* One call at a time, none after a call that never returned.
Step(A) ==
    ~crashed /\ calls < MaxCalls /\ calls' = calls + 1 /\ UNCHANGED lifetime /\ A

Next ==
    \/ \E x \in Nodes : Step(GetOutput(x))
    \/ \E x \in Nodes, f \in Functions : Step(SetFunctionPointer(x, f))
    \/ \E x \in Nodes, n \in Nodes :
           Len(inputs[x]) < MaxInputs /\ Step(AddInput(x, n))
    \/ \E x \in Nodes, ns \in NodeSeqs(Nodes, 0, MaxInputs) :
           Len(inputs[x]) + Len(ns) <= MaxInputs /\ Step(AddInputs(x, ns))
    \/ \E x \in Nodes, ns \in NodeSeqs(Nodes, 0, MaxInputs) : Step(SetInputs(x, ns))
    \/ \E x \in Nodes, v \in Values : Step(SetDefaultOutput(x, v))

Spec == Init /\ [][Next]_vars

\* -------------------------------------------------------------- SpecSum
\* The end-to-end scenario: constants A = 1 and B = 2, a Sum node C = 3 that is
\* wired to them by any of the three wiring calls, evaluated, and re-evaluated
\* after A's default is rewritten.
ExampleValues == {2, 5, 10}

Unbudgeted(A) == ~crashed /\ UNCHANGED <<calls, lifetime>> /\ A

InitSum ==
    \E a \in ExampleValues, b \in ExampleValues :
        Constructed(3, <<"nullptr", "nullptr", "Sum">>, <<a, b, 0>>)

NextSum ==
    \/ \E n \in {1, 2} : Len(inputs[3]) < 2 /\ Unbudgeted(AddInput(3, n))
    \/ \E ns \in NodeSeqs({1, 2}, 1, 2) :
           Len(inputs[3]) + Len(ns) <= 2 /\ Unbudgeted(AddInputs(3, ns))
    \/ \E ns \in NodeSeqs({1, 2}, 1, 2) : Unbudgeted(SetInputs(3, ns))
    \/ Unbudgeted(GetOutput(3))
    \/ \E v \in ExampleValues : Unbudgeted(SetDefaultOutput(1, v))

SpecSum == InitSum /\ [][NextSum]_vars

\* ------------------------------------------------------------ SpecChain
\* The propagation-depth scenario: a constant 1 and Sum nodes 2..ChainLength,
\* each wired to its predecessor by any of the three wiring calls.
ChainLength == 4

InitChain ==
    \E a \in Values :
        Constructed(ChainLength,
                    [n \in 1..ChainLength |-> IF n = 1 THEN "nullptr" ELSE "Sum"],
                    [n \in 1..ChainLength |-> IF n = 1 THEN a ELSE 0])

NextChain ==
    \/ \E x \in Nodes \ {1} : inputs[x] = <<>> /\ Unbudgeted(AddInput(x, x - 1))
    \/ \E x \in Nodes \ {1} : inputs[x] = <<>> /\ Unbudgeted(AddInputs(x, <<x - 1>>))
    \/ \E x \in Nodes \ {1} : Unbudgeted(SetInputs(x, <<x - 1>>))
    \/ \E x \in Nodes : Unbudgeted(GetOutput(x))
    \/ \E v \in Values : Unbudgeted(SetDefaultOutput(1, v))

SpecChain == InitChain /\ [][NextChain]_vars

\* -------------------------------------------------------------- SpecOps
\* The operator library on one node: node 1 is constructed as a constant, is
\* given every function of FUNCTION_SET in turn and up to MaxOpInputs inputs
\* among the constant nodes 2 and 3, and is evaluated.
MaxOpInputs == 3

OpValues == (0 - 1)..MaxValue

InitOps ==
    \E dflt \in [1..3 -> OpValues] :
        Constructed(3, <<"nullptr", "nullptr", "nullptr">>, dflt)

NextOps ==
    \/ \E f \in FUNCTION_SET : Unbudgeted(SetFunctionPointer(1, f))
    \/ \E n \in {2, 3} :
           Len(inputs[1]) < MaxOpInputs /\ Unbudgeted(AddInput(1, n))
    \/ Unbudgeted(GetOutput(1))

SpecOps == InitOps /\ [][NextOps]_vars

\* ---------------------------------------------------------- SpecIndexed
\* GetInputValues<N>(indices) called directly: node 1 gets up to MaxInputs
\* inputs among the constants 2 and 3, whose defaults are rewritten, and is
\* asked for the values at one or two positions, in and out of range.
IndexArrays == UNION {[1..k -> 1..(MaxInputs + 1)] : k \in 1..2}

InitIndexed ==
    \E b \in Values, c \in Values :
        Constructed(3, <<"nullptr", "nullptr", "nullptr">>, <<0, b, c>>)

NextIndexed ==
    \/ \E n \in {2, 3} :
           Len(inputs[1]) < MaxInputs /\ Unbudgeted(AddInput(1, n))
    \/ \E idx \in IndexArrays : Unbudgeted(GetInputValues(1, idx))
    \/ \E n \in {2, 3}, v \in Values : Unbudgeted(SetDefaultOutput(n, v))

SpecIndexed == InitIndexed /\ [][NextIndexed]_vars

\* ------------------------------------------------------- graph relations
\* The nodes in n's inputs vector.
InputSet(n) == {inputs[n][i] : i \in DOMAIN inputs[n]}

\* S and every node reached from S along back-pointers outs.
RECURSIVE OutClosure(_, _)
OutClosure(outs, S) ==
    LET T == S \cup UNION {outs[n] : n \in S}
    IN  IF T = S THEN S ELSE OutClosure(outs, T)

\* S and every node reached from S along input edges.
RECURSIVE InClosure(_)
InClosure(S) ==
    LET T == S \cup UNION {InputSet(n) : n \in S}
    IN  IF T = S THEN S ELSE InClosure(T)

\* No node is reached from itself along input edges.
Acyclic == \A n \in Nodes : n \notin InClosure(InputSet(n))

\* What GetOutput on n would return with every cache of the graph invalid.
FreshValue(n) ==
    GetOutputRec(n, EvalState(cached_output, [m \in Nodes |-> FALSE]), {}).ret

\* What a GetOutput call on n would do on this graph with the cache fields out
\* and valid: <<never returns, value>>.
WouldReturn(n, out, valid) ==
    LET r == GetOutputRec(n, EvalState(out, valid), {})
    IN  <<r.ovf, IF r.ovf THEN 0 ELSE r.ret>>

Mutators == {"SetFunctionPointer", "AddInput", "AddInputs", "SetInputs", "SetDefaultOutput"}

\* ---------------------------------------------------------- SpecLifetime
\* The caller may release its shared_ptr to a node. lifetime[n] is
\*   "held"          the caller holds a shared_ptr, n was never wired as an input
\*   "input"         n was wired as an input at some time; the caller retains it
\*   "destroyed"     the last shared_ptr was released and ~GraphNode() has run
\*   "dereferenced"  destroyed, and an invalidation walk has since followed a
\*                   raw back-pointer to it
Alive == {n \in Nodes : lifetime[n] \in {"held", "input"}}

Destroyed == {n \in Nodes : lifetime[n] \in {"destroyed", "dereferenced"}}

\* The nodes RecursiveInvalidateCache called on x visits along back-pointers outs.
Walk(x, outs) == OutClosure(outs, {x})

\* The caller drops its shared_ptr to x. The caller retains every node ever
\* wired as an input, so x is "held": no inputs vector holds it, its use count
\* falls to 0 and ~GraphNode() = default runs, which leaves every back-pointer
\* to x in the outputs of its inputs in place.
Release(x) ==
    /\ ~crashed /\ calls < MaxCalls /\ calls' = calls + 1
    /\ lifetime[x] = "held"
    /\ lifetime' = [lifetime EXCEPT ![x] = "destroyed"]
    /\ last' = Call("release", x, <<>>, 0, FALSE)
    /\ UNCHANGED <<graph, cache, crashed>>

\* A call A on x through a shared_ptr the caller holds, wiring the nodes ns as
\* inputs, whose invalidation visits walk. Following a back-pointer to a
\* destroyed node is undefined: either the freed storage still reads as the node
\* did and the call goes on as A, or the call faults and never returns.
Retaining(x, ns, walk, A) ==
    /\ ~crashed /\ calls < MaxCalls /\ calls' = calls + 1
    /\ \A n \in Nodes : lifetime[n] # "dereferenced"
    /\ {x} \cup ns \subseteq Alive
    /\ lifetime' = [n \in Nodes |->
                       IF n \in walk \cap Destroyed THEN "dereferenced"
                       ELSE IF n \in ns THEN "input" ELSE lifetime[n]]
    /\ \/ A
       \/ /\ walk \cap Destroyed # {}
          /\ crashed' = TRUE
          /\ last' = Call("fault", x, <<>>, 0, FALSE)
          /\ UNCHANGED <<graph, cache>>

SeqRange(s) == {s[i] : i \in DOMAIN s}

InitLifetime ==
    Constructed(NumNodes, [n \in 1..NumNodes |-> "nullptr"], [n \in 1..NumNodes |-> 0])

NextLifetime ==
    \/ \E x \in Nodes : Release(x)
    \/ \E x \in Nodes : Retaining(x, {}, {}, GetOutput(x))
    \/ \E x \in Nodes, f \in Functions :
           Retaining(x, {}, Walk(x, outputs), SetFunctionPointer(x, f))
    \/ \E x \in Nodes, n \in Nodes :
           /\ Len(inputs[x]) < MaxInputs
           /\ Retaining(x, {n}, Walk(x, AddOutput(outputs, n, x)), AddInput(x, n))
    \/ \E x \in Nodes, ns \in NodeSeqs(Nodes, 0, MaxInputs) :
           /\ Len(inputs[x]) + Len(ns) <= MaxInputs
           /\ Retaining(x, SeqRange(ns), Walk(x, outputs), AddInputs(x, ns))
    \/ \E x \in Nodes, ns \in NodeSeqs(Nodes, 0, MaxInputs) :
           Retaining(x, SeqRange(ns), Walk(x, outputs), SetInputs(x, ns))
    \/ \E x \in Nodes, v \in Values :
           Retaining(x, {}, IF default_output[x] # v THEN Walk(x, outputs) ELSE {},
                     SetDefaultOutput(x, v))

SpecLifetime == InitLifetime /\ [][NextLifetime]_vars

\* ---------------------------------------------------------- SpecAddInput
\* A caller that wires with AddInput only: NumNodes nodes of any kind among
\* WiredFunctions, every other call of the interface, AddInputs and SetInputs
\* never called, up to MaxWiredCalls calls.
MaxWiredCalls == 4

WiredFunctions == {"nullptr", "Sum", "Not", "Gate"}

WiredStep(A) ==
    ~crashed /\ calls < MaxWiredCalls /\ calls' = calls + 1 /\ UNCHANGED lifetime /\ A

InitAddInput ==
    \E fp \in [1..NumNodes -> WiredFunctions], dflt \in [1..NumNodes -> Values] :
        /\ \A n \in 1..NumNodes : fp[n] = "nullptr" \/ dflt[n] = 0
        /\ Constructed(NumNodes, fp, dflt)

NextAddInput ==
    \/ \E x \in Nodes : WiredStep(GetOutput(x))
    \/ \E x \in Nodes, f \in WiredFunctions : WiredStep(SetFunctionPointer(x, f))
    \/ \E x \in Nodes, n \in Nodes :
           Len(inputs[x]) < MaxInputs /\ WiredStep(AddInput(x, n))
    \/ \E x \in Nodes, v \in Values : WiredStep(SetDefaultOutput(x, v))

SpecAddInput == InitAddInput /\ [][NextAddInput]_vars

\* ----------------------------------------------------------------- claims
\* C1: on an acyclic graph, every node whose cache is valid holds the value a
\* fresh re-evaluation from the current functions, defaults and input lists
\* would produce.
C1_CacheCoherent ==
    (~crashed /\ Acyclic) =>
        \A n \in Nodes : cached_output_valid[n] => cached_output[n] = FreshValue(n)

\* C2: for all nodes A and B, B is in A's outputs iff A is in B's inputs
\* (stated on the acyclic graphs, where every wiring call returns).
C2_OutputsInverseOfInputs ==
    (~crashed /\ Acyclic) => \A a \in Nodes, b \in Nodes : (b \in outputs[a]) <=> (a \in InputSet(b))

C6_AddRegistersOutput ==
    /\ (last.op = "AddInput" /\ ~crashed /\ Acyclic) => last.node \in outputs[last.arg[1]]
    /\ (last.op = "AddInputs" /\ ~crashed /\ Acyclic) =>
           \A i \in DOMAIN last.arg : last.node \in outputs[last.arg[i]]

\* C7: SetDefaultOutput(v) on a node whose default is already v changes no
\* field of any node.
C7_NoOpDefaultWrite ==
    [][(last'.op = "SetDefaultOutput" /\ default_output[last'.node] = last'.arg)
       => UNCHANGED <<graph, cache, crashed>>]_vars

\* C7 witness: SetDefaultOutput has just returned on a constant x that is still
\* cache-valid (so it wrote nothing), as is the Sum node evaluated over it.
C7_Witness ==
    \E x \in Nodes : \E m \in Nodes \ {x} :
        /\ last.op = "SetDefaultOutput" /\ last.node = x /\ last.arg = default_output[x]
        /\ m \in outputs[x] /\ function_pointer[m] = "Sum" /\ inputs[m] = <<x>>
        /\ cached_output_valid[x] /\ cached_output_valid[m] /\ cached_output[m] = 1

\* C8: on an acyclic graph a GetOutput call that returns leaves unchanged what
\* a GetOutput call on any node returns, so that two calls on one node with
\* only GetOutput calls between them return the same value; and a call on a
\* node whose cache is valid returns the cached value and changes no field.
C8_RepeatedGetOutput ==
    [][(last'.op = "GetOutput" /\ ~crashed' /\ Acyclic) =>
          /\ UNCHANGED graph
          /\ \A n \in Nodes :
                 LET after == WouldReturn(n, cached_output', cached_output_valid')
                 IN  /\ after = WouldReturn(n, cached_output, cached_output_valid)
                     /\ n = last'.node => after = <<FALSE, last'.ret>>
          /\ cached_output_valid[last'.node] =>
                 /\ last'.ret = cached_output[last'.node]
                 /\ UNCHANGED <<graph, cache>>]_vars

\* C8 witness: the third call is a GetOutput on a Sum node x that nothing
\* consumes, answered from the cache: the second call was GetOutput on x too.
C8_Witness ==
    \E x \in Nodes :
        /\ calls = 3 /\ last.op = "GetOutput" /\ last.node = x /\ last.hit /\ last.ret = 1
        /\ function_pointer[x] = "Sum" /\ inputs[x] # <<>> /\ Acyclic
        /\ \A m \in Nodes : x \notin InputSet(m)

\* C9: a GetOutput call on x that returns changes only cache fields, only of
\* nodes reached from x along input edges, never makes a valid cache invalid,
\* and leaves x valid with the returned value cached.
C9_GetOutputFrame ==
    [][(last'.op = "GetOutput" /\ ~crashed') =>
          /\ UNCHANGED graph
          /\ \A n \in Nodes :
                 /\ cached_output_valid[n] => cached_output_valid'[n]
                 /\ (cached_output'[n] # cached_output[n]
                       \/ cached_output_valid'[n] # cached_output_valid[n])
                      => n \in InClosure({last'.node})
          /\ cached_output_valid'[last'.node]
          /\ cached_output'[last'.node] = last'.ret]_vars

\* C9 witness: the second call, GetOutput on a Sum node x over a constant,
\* computed 1 and left x and its input valid while a third node stays invalid.
C9_Witness ==
    \E x \in Nodes : \E a \in Nodes \ {x} :
        /\ calls = 2 /\ last.op = "GetOutput" /\ last.node = x /\ ~last.hit /\ last.ret = 1
        /\ function_pointer[x] = "Sum" /\ inputs[x] = <<a>>
        /\ cached_output_valid[x] /\ cached_output_valid[a] /\ cached_output[a] = 1
        /\ \E o \in Nodes \ {x, a} : ~cached_output_valid[o]

\* C4: with constants A = 1, B = 2 and the Sum node C = 3 over <<A, B>>, however
\* wired: once C.GetOutput() has returned A's default plus B's, a write of a
\* different default to A leaves C cache-invalid, and the next C.GetOutput()
\* returns the new sum.
C4_EndToEnd ==
    [][/\ (/\ inputs[3] = <<1, 2>>
           /\ last.op = "GetOutput" /\ last.node = 3
           /\ last.ret = default_output[1] + default_output[2]
           /\ last'.op = "SetDefaultOutput" /\ last'.arg # default_output[1])
          => ~cached_output_valid'[3]
       /\ (/\ inputs[3] = <<1, 2>>
           /\ last.op = "SetDefaultOutput"
           /\ last'.op = "GetOutput")
          => last'.ret = default_output[1] + default_output[2]]_vars

\* Every Sum node of the chain consumes its predecessor.
ChainWired == \A x \in Nodes \ {1} : inputs[x] = <<x - 1>>

\* C5: in the chain 1 -> 2 -> ... -> ChainLength of Sum nodes, however wired,
\* with every node evaluated: a write of a different default to node 1 leaves
\* every Sum node cache-invalid, and one GetOutput on the last node then
\* returns node 1's new default and leaves every node cache-valid.
C5_ChainPropagation ==
    [][/\ (/\ ChainWired
           /\ \A n \in Nodes : cached_output_valid[n]
           /\ last'.op = "SetDefaultOutput" /\ last'.arg # default_output[1])
          => \A n \in Nodes \ {1} : ~cached_output_valid'[n]
       /\ (/\ ChainWired
           /\ last.op = "SetDefaultOutput"
           /\ last'.op = "GetOutput" /\ last'.node = ChainLength)
          => /\ last'.ret = default_output[1]
             /\ \A n \in Nodes : cached_output_valid'[n]]_vars

\* The functions that need a minimum number of inputs, with that number.
MinInputs(f) ==
    CASE f = "Not" -> 1
      [] f = "Gate" -> 2
      [] f \in {"AnyEq", "Max", "Min"} -> 1
      [] OTHER -> 0

C11_IndexedInputValues ==
    [][(last'.op = "GetInputValues" /\ ~crashed') =>
          LET x == last'.node
              idx == last'.arg
              short == \E i \in DOMAIN idx : idx[i] > Len(inputs[x])
          IN  /\ last'.ret.has <=> ~short
              /\ short => UNCHANGED <<graph, cache>>
              /\ ~short =>
                     /\ Len(last'.ret.vals) = Len(idx)
                     /\ \A i \in DOMAIN idx :
                            <<FALSE, last'.ret.vals[i]>> =
                                WouldReturn(inputs[x][idx[i]], cached_output,
                                            cached_output_valid)]_vars

\* C11 witness: positions 1 and 3 were asked of a node with two inputs; no
\* value came back and the in-range input at position 1 was not evaluated.
C11_Witness ==
    /\ last.op = "GetInputValues" /\ last.arg = <<1, 3>> /\ ~last.ret.has
    /\ Len(inputs[last.node]) = 2
    /\ \A n \in InputSet(last.node) : ~cached_output_valid[n]

\* C12: on an acyclic graph (before and after the call) every GetOutput call
\* and every mutator call returns.
C12_AcyclicCallsReturn ==
    [][(Acyclic /\ Acyclic') => ~crashed']_vars

\* C13: the caller retains every node ever wired as an input; then no
\* invalidation walk of a mutator follows a back-pointer to a destroyed node.
C13_NoDanglingDereference ==
    \A n \in Nodes : lifetime[n] # "dereferenced"

\* The values GetInputValues() reads on n when every cache is invalid.
FreshInputs(n) == [i \in DOMAIN inputs[n] |-> FreshValue(inputs[n][i])]

\* C14: Gate with two or more inputs returns input 0 if input 1 is nonzero and
\* 0 otherwise, whatever the inputs at positions 2 and beyond.
C14_Gate ==
    (last.op = "GetOutput" /\ ~crashed /\ function_pointer[last.node] = "Gate"
       /\ Len(inputs[last.node]) >= 2)
    => LET v == FreshInputs(last.node)
       IN  last.ret = IF v[2] # 0 THEN v[1] ELSE 0

\* C14 witness: Gate computed on the three inputs [-1, 1, -1] returns -1, where
\* the swapped order [1, -1] would give 1.
C14_Witness ==
    /\ last.op = "GetOutput" /\ ~last.hit /\ ~crashed
    /\ function_pointer[last.node] = "Gate"
    /\ FreshInputs(last.node) = <<0 - 1, 1, 0 - 1>>
    /\ last.ret = 0 - 1

C16_AnyEq ==
    (last.op = "GetOutput" /\ ~crashed /\ function_pointer[last.node] = "AnyEq")
    => LET v == FreshInputs(last.node)
       IN  last.ret = IF Len(v) = 0 THEN default_output[last.node]
                      ELSE IF \E i \in DOMAIN v : i >= 2 /\ v[i] = v[1] THEN 1 ELSE 0

\* C16 witness: AnyEq computed on a single input, on a node whose default is 1,
\* returns 0.
C16_Witness ==
    /\ last.op = "GetOutput" /\ ~last.hit /\ ~crashed
    /\ function_pointer[last.node] = "AnyEq"
    /\ Len(inputs[last.node]) = 1
    /\ default_output[last.node] = 1
    /\ last.ret = 0

\* C17: Not returns 1 if the first input equals 0 or there are no inputs, and 0
\* otherwise.
C17_Not ==
    (last.op = "GetOutput" /\ ~crashed /\ function_pointer[last.node] = "Not")
    => LET v == FreshInputs(last.node)
       IN  last.ret = IF Len(v) = 0 \/ v[1] = 0 THEN 1 ELSE 0

\* n is reached from itself along input edges.
OnCycle(n) == n \in InClosure(InputSet(n))

\* C18: a GetOutput call, or a mutator call that invalidates, on a node that
\* lies on a cycle of input edges never returns, whichever wiring call made
\* the cycle and whichever function the nodes have.
C18_CycleCallNeverReturns ==
    [][\A x \in Nodes :
           (/\ last'.node = x
            /\ last'.op \in Mutators \cup {"GetOutput"}
            /\ last'.op = "SetDefaultOutput" => default_output'[x] # default_output[x]
            /\ OnCycle(x)')
           => crashed']_vars

\* C19: GetOutput on a node without function returns, with the node's default
\* as its value when it computes, for any input list, and leaves the cache
\* fields of every other node, its inputs among them, as they were.
C19_ConstantReadsNoInput ==
    [][\A x \in Nodes :
           (last'.op = "GetOutput" /\ last'.node = x /\ function_pointer[x] = "nullptr")
           => /\ ~crashed'
              /\ last'.ret = default_output[x]
              /\ \A n \in Nodes \ {x} :
                     /\ cached_output'[n] = cached_output[n]
                     /\ cached_output_valid'[n] = cached_output_valid[n]]_vars

\* C19 witness: a node without function, with default 1 and an input of
\* default 0, has just been computed to 1 and its input's cache is still invalid.
C19_Witness ==
    /\ last.op = "GetOutput" /\ ~last.hit /\ ~crashed
    /\ function_pointer[last.node] = "nullptr"
    /\ default_output[last.node] = 1 /\ last.ret = 1
    /\ \E n \in InputSet(last.node) \ {last.node} :
           /\ default_output[n] = 0 /\ function_pointer[n] = "nullptr"
           /\ ~cached_output_valid[n]

\* C20: with AddInput the only wiring call, on an acyclic graph every node
\* whose cache is valid holds the value a fresh re-evaluation would produce.
C20_AddInputCoherent ==
    (~crashed /\ Acyclic) =>
        \A n \in Nodes : cached_output_valid[n] => <<FALSE, cached_output[n]>> =
            WouldReturn(n, cached_output, [m \in Nodes |-> FALSE])

\* C20 witness: a Not node with two inputs is cache-valid with value 1 while
\* its second input, which it never reads, is cache-invalid.
C20_Witness ==
    /\ ~crashed /\ Acyclic
    /\ \E n \in Nodes :
           /\ function_pointer[n] = "Not" /\ Len(inputs[n]) = 2
           /\ cached_output_valid[n] /\ cached_output[n] = 1
           /\ cached_output_valid[inputs[n][1]]
           /\ ~cached_output_valid[inputs[n][2]]

====
